---- MODULE Spec2Model ----
(***************************************************************************)
(* A model of package rstat (maxim2266/rstat): the 'ps' table parser, the  *)
(* process tree builder and the depth-first tree traversal of rstat.go.    *)
(*                                                                         *)
(* A Go string is a sequence of one-character strings; a map is a function *)
(* on the set of its keys; a *ProcNode is the pid under which the node is  *)
(* stored in the builder's index (Nil for the nil pointer).                *)
(***************************************************************************)
EXTENDS Integers, Sequences, FiniteSets, TLC

VARIABLES
    input,    \* the lines of the command's output
    pos,      \* how many of them the line iterator has delivered
    fn,       \* the current strit.ParserFunc: "Enter", "read" or "nil"
    header,   \* psParser.header
    stats,    \* psParser.stats, the argument of buildProcTree
    err,      \* the error of the call ("" for nil)
    nodes,    \* the ProcNode objects, by the pid that indexes them
    root,     \* the *ProcNode returned by buildProcTree
    pc,       \* position of the call
    pred,     \* the pids for which the predicate given to Find is true
    stack,    \* the stack of Find
    calls,    \* the pids the predicate was applied to, in order
    found,    \* the *ProcNode returned by Find
    pidArg,   \* arguments of a direct getPid call
    pidRet,   \* its results
    columns,  \* the argument of makePsCommand
    sshArg,   \* the arguments of SSHCommand
    cmd       \* the command vector a command builder returned

vars == <<input, pos, fn, header, stats, err, nodes, root, pc, pred, stack, calls,
          found, pidArg, pidRet, columns, sshArg, cmd>>

\* ------------------------------------------------------------------ bounds
\* width of the modelled int; stands for strconv.IntSize (32 or 64 in a build),
\* whose values the integers of the model checker cannot hold
IntBits == 8
\* longest value string given to getPid directly
MaxStrLen == 3
\* longest record list given to buildProcTree
MaxRecs == 3
\* largest pid of a record
MaxPid == 2
\* most lines of command output
MaxLines == 4
\* most nodes of a tree given to Find
MaxNodes == 4
\* most rows of a table with identifier fields that may be invalid
MaxIdRecs == 2
\* predicate applications after which a traversal is no longer followed
MaxCalls == 6
\* most columns of a request given to makePsCommand
MaxCols == 3
\* largest timeout given to SSHCommand
MaxSeconds == 11

Nil == -1

\* ----------------------------------------------------------------- strings
SP == " "
HT == "<HT>"
VT == "<VT>"

Digits == <<"0", "1", "2", "3", "4", "5", "6", "7", "8", "9">>

IsDigit(c) == \E i \in 1..Len(Digits) : Digits[i] = c

DigitVal(c) == (CHOOSE i \in 1..Len(Digits) : Digits[i] = c) - 1

\* unicode.IsSpace, as used by strings.Fields and bytes.TrimSpace
IsSpace(c) == c \in {SP, HT, VT}

\* the class \s of package regexp: [\t\n\f\r ], without the vertical tab
ReSpace(c) == c \in {SP, HT}

RECURSIVE Pow(_, _)
Pow(b, e) == IF e = 0 THEN 1 ELSE b * Pow(b, e - 1)

\* strconv.ParseUint(s, 10, IntBits): <<value, error>>, scanning left to right
\* and stopping at the first character that fails
RECURSIVE ParseUintFrom(_, _, _)
ParseUintFrom(s, i, n) ==
    IF i > Len(s) THEN <<n, "">>
    ELSE IF ~IsDigit(s[i]) THEN <<0, "syntax">>
    ELSE IF n * 10 + DigitVal(s[i]) > Pow(2, IntBits) - 1 THEN <<Pow(2, IntBits) - 1, "range">>
    ELSE ParseUintFrom(s, i + 1, n * 10 + DigitVal(s[i]))

ParseUint(s) == IF Len(s) < 1 THEN <<0, "syntax">> ELSE ParseUintFrom(s, 1, 0)

\* strconv.Atoi(s) = ParseInt(s, 10, 0): <<value, error>>
Atoi(s) ==
    IF Len(s) = 0 THEN <<0, "syntax">>
    ELSE LET neg    == s[1] = "-"
             body   == IF s[1] \in {"+", "-"} THEN Tail(s) ELSE s
             un     == ParseUint(body)
             cutoff == Pow(2, IntBits - 1)
         IN  IF un[2] = "syntax" THEN <<0, "syntax">>
             ELSE IF ~neg /\ un[1] >= cutoff THEN <<cutoff - 1, "range">>
             ELSE IF neg /\ un[1] > cutoff THEN <<-cutoff, "range">>
             ELSE <<IF neg THEN -un[1] ELSE un[1], "">>

\* stats[key] of a Go map: the zero value "" for an absent key
MapGet(m, key) == IF key \in DOMAIN m THEN m[key] ELSE <<>>

\* getPid without its test for a negative value
getPidNoNegative(m, key) ==
    LET str == MapGet(m, key)
        a   == Atoi(str)
    IN  IF Len(str) = 0 THEN [val |-> 0, err |-> "missing"]
        ELSE IF a[2] # "" THEN [val |-> a[1], err |-> "format"]
        ELSE [val |-> a[1], err |-> ""]

\* getPid(stats, key): [val, err]
getPid(m, key) ==
    LET str == MapGet(m, key)
        a   == Atoi(str)
    IN  IF Len(str) = 0 THEN [val |-> 0, err |-> "missing"]
        ELSE IF a[2] # "" THEN [val |-> a[1], err |-> "format"]
        ELSE IF a[1] < 0 THEN [val |-> a[1], err |-> "negative"]
        ELSE [val |-> a[1], err |-> ""]

\* ------------------------------------------------------------ line splitting
\* bytes.TrimSpace(line)
RECURSIVE TrimLeft(_)
TrimLeft(s) == IF Len(s) > 0 /\ IsSpace(s[1]) THEN TrimLeft(Tail(s)) ELSE s

RECURSIVE TrimRight(_)
TrimRight(s) ==
    IF Len(s) > 0 /\ IsSpace(s[Len(s)]) THEN TrimRight(SubSeq(s, 1, Len(s) - 1)) ELSE s

TrimSpace(s) == TrimRight(TrimLeft(s))

\* strings.Fields(s): i is the next position, fieldStart the start of the open
\* field (0 for none), a the fields found so far
RECURSIVE FieldsFrom(_, _, _, _)
FieldsFrom(s, i, fieldStart, a) ==
    IF i > Len(s)
    THEN IF fieldStart > 0 THEN Append(a, SubSeq(s, fieldStart, Len(s))) ELSE a
    ELSE IF IsSpace(s[i])
    THEN IF fieldStart > 0
         THEN FieldsFrom(s, i + 1, 0, Append(a, SubSeq(s, fieldStart, i - 1)))
         ELSE FieldsFrom(s, i + 1, 0, a)
    ELSE FieldsFrom(s, i + 1, IF fieldStart = 0 THEN i ELSE fieldStart, a)

Fields(s) == FieldsFrom(s, 1, 0, <<>>)

\* end (exclusive, 0-based) of the run of \s that starts at 0-based offset i
RECURSIVE RunEnd(_, _)
RunEnd(s, i) == IF i < Len(s) /\ ReSpace(s[i + 1]) THEN RunEnd(s, i + 1) ELSE i

\* wsRe.FindAllStringIndex(s, n): the first n matches of \s+ as <<begin, end>>,
\* 0-based and half open
RECURSIVE FindAllFrom(_, _, _, _)
FindAllFrom(s, i, n, acc) ==
    IF Len(acc) = n \/ i >= Len(s) THEN acc
    ELSE IF ReSpace(s[i + 1])
    THEN FindAllFrom(s, RunEnd(s, i), n, Append(acc, <<i, RunEnd(s, i)>>))
    ELSE FindAllFrom(s, i + 1, n, acc)

\* the loop of Regexp.Split over the matches
RECURSIVE SplitLoop(_, _, _, _, _, _)
SplitLoop(s, n, matches, k, beg, strs) ==
    IF k > Len(matches) \/ Len(strs) = n - 1
    THEN Append(strs, SubSeq(s, beg + 1, Len(s)))
    ELSE SplitLoop(s, n, matches, k + 1, matches[k][2],
                   Append(strs, SubSeq(s, beg + 1, matches[k][1])))

\* wsRe.Split(s, -1): every piece, whatever n
SplitUncapped(s, n) ==
    IF Len(s) = 0 THEN << <<>> >>
    ELSE SplitLoop(s, Len(s) + 2, FindAllFrom(s, 0, Len(s) + 2, <<>>), 1, 0, <<>>)

\* wsRe.Split(s, n) for n > 0: at most n pieces, the last one the unsplit rest
Split(s, n) ==
    IF Len(s) = 0 THEN << <<>> >>
    ELSE SplitLoop(s, n, FindAllFrom(s, 0, n, <<>>), 1, 0, <<>>)

\* the loop of read stopping one field early
RECURSIVE ZipSkipsLast(_, _, _, _)
ZipSkipsLast(hdr, fields, i, m) ==
    IF i >= Len(fields) THEN m
    ELSE ZipSkipsLast(hdr, fields, i + 1,
             [k \in DOMAIN m \cup {hdr[i]} |-> IF k = hdr[i] THEN fields[i] ELSE m[k]])

\* m[header[i]] = fields[i] for every i, a later duplicate column overwriting
RECURSIVE Zip(_, _, _, _)
Zip(hdr, fields, i, m) ==
    IF i > Len(fields) THEN m
    ELSE Zip(hdr, fields, i + 1,
             [k \in DOMAIN m \cup {hdr[i]} |-> IF k = hdr[i] THEN fields[i] ELSE m[k]])

\* ------------------------------------------------------------- tree builder
PID == <<"P", "I", "D">>
PPID == <<"P", "P", "I", "D">>
CMD == <<"C", "M", "D">>

\* the first loop of buildProcTree keeping the first record of a pid
RECURSIVE IndexLoopFirstWins(_, _, _)
IndexLoopFirstWins(recs, i, idx) ==
    IF i > Len(recs) THEN [idx |-> idx, err |-> ""]
    ELSE LET p == getPid(recs[i], PID)
         IN  IF p.err # "" THEN [idx |-> idx, err |-> p.err]
             ELSE IF p.val \in DOMAIN idx THEN IndexLoopFirstWins(recs, i + 1, idx)
             ELSE IndexLoopFirstWins(recs, i + 1,
                    [k \in DOMAIN idx \cup {p.val} |->
                        IF k = p.val
                        THEN [Pid |-> p.val, Stats |-> recs[i], Children |-> <<>>]
                        ELSE idx[k]])

\* first loop of buildProcTree: the index from pid to node, or the first error
RECURSIVE IndexLoop(_, _, _)
IndexLoop(recs, i, idx) ==
    IF i > Len(recs) THEN [idx |-> idx, err |-> ""]
    ELSE LET p == getPid(recs[i], PID)
         IN  IF p.err # "" THEN [idx |-> idx, err |-> p.err]
             ELSE IndexLoop(recs, i + 1,
                    [k \in DOMAIN idx \cup {p.val} |->
                        IF k = p.val
                        THEN [Pid |-> p.val, Stats |-> recs[i], Children |-> <<>>]
                        ELSE idx[k]])

\* second loop of buildProcTree, ranging over the index in the order 'order'
RECURSIVE LinkLoop(_, _, _)
LinkLoop(idx, order, j) ==
    IF j > Len(order) THEN [idx |-> idx, err |-> ""]
    ELSE LET node == idx[order[j]]
             pp   == getPid(node.Stats, PPID)
         IN  IF pp.err # "" THEN [idx |-> idx, err |-> pp.err]
             ELSE IF pp.val \in DOMAIN idx
             THEN LinkLoop([idx EXCEPT ![pp.val].Children = Append(@, node.Pid)],
                           order, j + 1)
             ELSE LinkLoop(idx, order, j + 1)

\* the orders in which a range over a map with the keys S may run
RECURSIVE Orders(_)
Orders(S) ==
    IF S = {} THEN {<<>>}
    ELSE UNION {{<<a>> \o o : o \in Orders(S \ {a})} : a \in S}

\* buildProcTree returning some node of the index when pid 1 is not in it
buildProcTreeAnyRoot(recs, order) ==
    LET first == IndexLoop(recs, 1, <<>>)
        second == LinkLoop(first.idx, order, 1)
    IN  IF first.err # "" THEN [nodes |-> <<>>, root |-> Nil, err |-> first.err]
        ELSE IF second.err # "" THEN [nodes |-> <<>>, root |-> Nil, err |-> second.err]
        ELSE IF 1 \in DOMAIN second.idx
        THEN [nodes |-> second.idx, root |-> 1, err |-> ""]
        ELSE IF Len(order) > 0
        THEN [nodes |-> second.idx, root |-> order[1], err |-> ""]
        ELSE [nodes |-> <<>>, root |-> Nil, err |-> "noroot"]

\* buildProcTree(recs), the map ranged over in the order 'order': [nodes, root, err]
buildProcTree(recs, order) ==
    LET first == IndexLoop(recs, 1, <<>>)
        second == LinkLoop(first.idx, order, 1)
    IN  IF first.err # "" THEN [nodes |-> <<>>, root |-> Nil, err |-> first.err]
        ELSE IF second.err # "" THEN [nodes |-> <<>>, root |-> Nil, err |-> second.err]
        ELSE IF 1 \in DOMAIN second.idx
        THEN [nodes |-> second.idx, root |-> 1, err |-> ""]
        ELSE [nodes |-> <<>>, root |-> Nil, err |-> "noroot"]

\* The revision of buildProcTree with the field ParentPid.
\* delete(stat, "PID"); delete(stat, "PPID")
DeleteIds(rec) == [k \in DOMAIN rec \ {PID, PPID} |-> rec[k]]

\* its first loop: the index, the records as the loop leaves them (the maps of
\* the records it has indexed are without their identifier columns), the error
RECURSIVE IndexLoopParentPid(_, _, _)
IndexLoopParentPid(recs, i, idx) ==
    IF i > Len(recs) THEN [idx |-> idx, recs |-> recs, err |-> ""]
    ELSE LET p  == getPid(recs[i], PID)
             pp == getPid(recs[i], PPID)
         IN  IF p.err # "" THEN [idx |-> idx, recs |-> recs, err |-> p.err]
             ELSE IF pp.err # "" THEN [idx |-> idx, recs |-> recs, err |-> pp.err]
             ELSE IndexLoopParentPid([recs EXCEPT ![i] = DeleteIds(@)], i + 1,
                    [k \in DOMAIN idx \cup {p.val} |->
                        IF k = p.val
                        THEN [Pid |-> p.val, ParentPid |-> pp.val,
                              Stats |-> DeleteIds(recs[i]), Children |-> <<>>]
                        ELSE idx[k]])

\* its second loop, ranging over the index in the order 'order'
RECURSIVE LinkLoopParentPid(_, _, _)
LinkLoopParentPid(idx, order, j) ==
    IF j > Len(order) THEN idx
    ELSE LET node == idx[order[j]]
         IN  IF node.ParentPid \in DOMAIN idx
             THEN LinkLoopParentPid(
                      [idx EXCEPT ![node.ParentPid].Children = Append(@, node.Pid)],
                      order, j + 1)
             ELSE LinkLoopParentPid(idx, order, j + 1)

\* buildProcTree(recs) of that revision: [nodes, root, err, stats]
buildProcTreeParentPid(recs, order) ==
    LET first  == IndexLoopParentPid(recs, 1, <<>>)
        second == LinkLoopParentPid(first.idx, order, 1)
    IN  IF first.err # ""
        THEN [nodes |-> <<>>, root |-> Nil, err |-> first.err, stats |-> first.recs]
        ELSE IF 1 \in DOMAIN second
        THEN [nodes |-> second, root |-> 1, err |-> "", stats |-> first.recs]
        ELSE [nodes |-> <<>>, root |-> Nil, err |-> "noroot", stats |-> first.recs]

\* ---------------------------------------------------------------- traversal
\* iterNodes leaving nodes[i+2:] on the stack when it descends
RECURSIVE iterFromSkipsSibling(_, _, _, _, _)
iterFromSkipsSibling(heap, stk, p, i, applied) ==
    LET top == stk[Len(stk)]
    IN  IF i > Len(top)
        THEN [node |-> Nil, stack |-> SubSeq(stk, 1, Len(stk) - 1), applied |-> applied]
        ELSE IF top[i] \in p
        THEN [node |-> top[i], stack |-> <<>>, applied |-> Append(applied, top[i])]
        ELSE IF Len(heap[top[i]].Children) > 0
        THEN [node |-> Nil,
              stack |-> Append([stk EXCEPT ![Len(stk)] = SubSeq(top, i + 2, Len(top))],
                               heap[top[i]].Children),
              applied |-> Append(applied, top[i])]
        ELSE iterFromSkipsSibling(heap, stk, p, i + 1, Append(applied, top[i]))

\* iterNodes(stack, pred) from element i of the top list: [node, stack, applied]
RECURSIVE iterFrom(_, _, _, _, _)
iterFrom(heap, stk, p, i, applied) ==
    LET top == stk[Len(stk)]
    IN  IF i > Len(top)
        THEN [node |-> Nil, stack |-> SubSeq(stk, 1, Len(stk) - 1), applied |-> applied]
        ELSE IF top[i] \in p
        THEN [node |-> top[i], stack |-> <<>>, applied |-> Append(applied, top[i])]
        ELSE IF Len(heap[top[i]].Children) > 0
        THEN [node |-> Nil,
              stack |-> Append([stk EXCEPT ![Len(stk)] = SubSeq(top, i + 1, Len(top))],
                               heap[top[i]].Children),
              applied |-> Append(applied, top[i])]
        ELSE iterFrom(heap, stk, p, i + 1, Append(applied, top[i]))

iterNodes(heap, stk, p) == iterFrom(heap, stk, p, 1, <<>>)

\* --------------------------------------------------------- command builders
Lps == <<"p", "s">>
LewwF == <<"-", "e", "w", "w", "F">>
Lewwo == <<"-", "e", "w", "w", "o">>
Lo == <<"-", "o">>
Lpid == <<"p", "i", "d">>
Lppid == <<"p", "p", "i", "d">>
Largs == <<"a", "r", "g", "s">>
Lcmd == <<"c", "m", "d">>
Lcommand == <<"c", "o", "m", "m", "a", "n", "d">>

\* the first loop of makePsCommand from column i on: [m, cmd], m the keys of the
\* map and cmd the flag
RECURSIVE ColumnLoop(_, _, _, _)
ColumnLoop(cols, i, m, c) ==
    IF i > Len(cols) THEN [m |-> m, cmd |-> c]
    ELSE IF cols[i] \in {Largs, Lcmd, Lcommand} THEN ColumnLoop(cols, i + 1, m, TRUE)
    ELSE IF cols[i] \in {Lpid, Lppid} THEN ColumnLoop(cols, i + 1, m, c)
    ELSE ColumnLoop(cols, i + 1, m \cup {cols[i]}, c)

\* the second loop of makePsCommand: the buffer after the keys from order[j] on
RECURSIVE WriteColumns(_, _, _)
WriteColumns(buff, order, j) ==
    IF j > Len(order) THEN buff
    ELSE WriteColumns(buff \o <<",">> \o order[j], order, j + 1)

\* makePsCommand(columns) of rstat.go, the map ranged over in the order 'order'
makePsCommand(cols, order) ==
    IF Len(cols) = 0 THEN <<Lps, LewwF>>
    ELSE LET buff == WriteColumns(Lpid \o <<",">> \o Lppid, order, 1)
         IN  <<Lps, Lewwo,
               IF ColumnLoop(cols, 1, {}, FALSE).cmd THEN buff \o <<",">> \o Lcmd ELSE buff>>

\* strings.IndexByte(s, c): the 0-based offset of the first c in s, or -1
IndexByte(s, c) ==
    IF \E i \in 1..Len(s) : s[i] = c
    THEN (CHOOSE i \in 1..Len(s) : s[i] = c /\ \A j \in 1..(i - 1) : s[j] # c) - 1
    ELSE -1

\* the revision of makePsCommand with column widths and substitutions: the name
\* and the substitution string that one column of the request is cut into
CutColumn(c) ==
    LET i == IndexByte(c, ":")
        d == IF i >= 0 THEN SubSeq(c, 1, i) ELSE c
        j == IndexByte(d, "=")
    IN  IF j >= 0 THEN [c |-> SubSeq(d, 1, j), subst |-> SubSeq(d, j + 2, Len(d))]
        ELSE [c |-> d, subst |-> <<>>]

\* its first loop from column i on: [m, cmd], cmd the string ("" for not set)
RECURSIVE ColumnLoopSubst(_, _, _, _)
ColumnLoopSubst(cols, i, m, c) ==
    IF i > Len(cols) THEN [m |-> m, cmd |-> c]
    ELSE LET cut == CutColumn(cols[i])
             ren == IF Len(cut.subst) > 0 THEN cut.c \o <<"=">> \o cut.subst ELSE cut.c
         IN  IF cut.c \in {Largs, Lcmd, Lcommand}
             THEN ColumnLoopSubst(cols, i + 1, m,
                      IF Len(cut.subst) > 0 THEN Lcmd \o <<"=">> \o cut.subst ELSE Lcmd)
             ELSE IF cut.c \in {Lpid, Lppid} THEN ColumnLoopSubst(cols, i + 1, m, c)
             ELSE ColumnLoopSubst(cols, i + 1, m \cup {ren}, c)

\* its second loop: res after the keys from order[j] on
RECURSIVE AppendColumns(_, _, _)
AppendColumns(res, order, j) ==
    IF j > Len(order) THEN res
    ELSE AppendColumns(res \o <<Lo, order[j]>>, order, j + 1)

\* makePsCommand(columns) of that revision
makePsCommandSubst(cols, order) ==
    IF Len(cols) = 0 THEN <<Lps, LewwF>>
    ELSE LET res == AppendColumns(<<Lps, Lewwo, Lpid \o <<",">> \o Lppid>>, order, 1)
             c   == ColumnLoopSubst(cols, 1, {}, <<>>).cmd
         IN  IF Len(c) > 0 THEN res \o <<Lo, c>> ELSE res

Lssh == <<"s", "s", "h">>
Lsshpass == <<"s", "s", "h", "p", "a", "s", "s">>
Lp == <<"-", "p">>
LConnectTimeout ==
    <<"C", "o", "n", "n", "e", "c", "t", "T", "i", "m", "e", "o", "u", "t", "=">>

\* strconv.FormatUint(n, 10): the decimal digits of n, the most significant first
RECURSIVE FormatUint(_)
FormatUint(n) ==
    IF n < 10 THEN <<Digits[n + 1]>>
    ELSE Append(FormatUint(n \div 10), Digits[(n % 10) + 1])

\* SSHCommand adding the timeout option whatever the number of seconds
SSHCommandAlwaysTimeout(host, user, passw, seconds) ==
    LET first == IF Len(passw) > 0 THEN <<Lsshpass, Lp, passw, Lssh>> ELSE <<Lssh>>
    IN  Append(first \o <<Lo, LConnectTimeout \o FormatUint(seconds)>>,
               user \o <<"@">> \o host)

\* SSHCommand(host, user, passw, seconds)
SSHCommand(host, user, passw, seconds) ==
    LET first  == IF Len(passw) > 0 THEN <<Lsshpass, Lp, passw, Lssh>> ELSE <<Lssh>>
        second == IF seconds > 0
                  THEN first \o <<Lo, LConnectTimeout \o FormatUint(seconds)>>
                  ELSE first
    IN  Append(second, user \o <<"@">> \o host)

\* ------------------------------------------------------------------ actions
\* the line the iterator delivers next, trimmed by nonEmptyLines
NextLine == TrimSpace(input[pos + 1])

\* nonEmptyLines: a line that is empty after trimming never reaches the parser
SkipBlank ==
    /\ pc = "parse" /\ pos < Len(input)
    /\ Len(NextLine) = 0
    /\ pos' = pos + 1
    /\ UNCHANGED <<input, fn, header, stats, err, nodes, root, pc, pred, stack,
                   calls, found, pidArg, pidRet, columns, sshArg, cmd>>

\* psParser.Enter accepting a header of a single column
EnterAcceptsShort ==
    /\ pc = "parse" /\ pos < Len(input) /\ fn = "Enter"
    /\ Len(NextLine) > 0
    /\ pos' = pos + 1
    /\ stats' = <<>>
    /\ header' = Fields(NextLine)
    /\ IF Len(Fields(NextLine)) < 1
       THEN fn' = "nil" /\ err' = "header" /\ pc' = "failed"
       ELSE fn' = "read" /\ err' = err /\ pc' = pc
    /\ UNCHANGED <<input, nodes, root, pred, stack, calls, found, pidArg, pidRet, columns, sshArg, cmd>>

\* psParser.Enter(line); on error Parse stops and pstree returns nil and the error
Enter ==
    /\ pc = "parse" /\ pos < Len(input) /\ fn = "Enter"
    /\ Len(NextLine) > 0
    /\ pos' = pos + 1
    /\ stats' = <<>>
    /\ header' = Fields(NextLine)
    /\ IF Len(Fields(NextLine)) < 2
       THEN fn' = "nil" /\ err' = "header" /\ pc' = "failed"
       ELSE fn' = "read" /\ err' = err /\ pc' = pc
    /\ UNCHANGED <<input, nodes, root, pred, stack, calls, found, pidArg, pidRet, columns, sshArg, cmd>>

\* psParser.read without the test of the number of fields
readNoShapeCheck ==
    /\ pc = "parse" /\ pos < Len(input) /\ fn = "read"
    /\ Len(NextLine) > 0
    /\ pos' = pos + 1
    /\ fn' = "read" /\ err' = err /\ pc' = pc
    /\ stats' = Append(stats, Zip(header, Split(NextLine, Len(header)), 1, <<>>))
    /\ UNCHANGED <<input, header, nodes, root, pred, stack, calls, found, pidArg, pidRet, columns, sshArg, cmd>>

\* psParser.read(line); on error Parse stops and pstree returns nil and the error
read ==
    /\ pc = "parse" /\ pos < Len(input) /\ fn = "read"
    /\ Len(NextLine) > 0
    /\ pos' = pos + 1
    /\ LET fields == Split(NextLine, Len(header))
       IN  IF Len(fields) # Len(header)
           THEN fn' = "nil" /\ err' = "rowshape" /\ pc' = "failed" /\ stats' = stats
           ELSE /\ fn' = "read" /\ err' = err /\ pc' = pc
                /\ stats' = Append(stats, Zip(header, fields, 1, <<>>))
    /\ UNCHANGED <<input, header, nodes, root, pred, stack, calls, found, pidArg, pidRet, columns, sshArg, cmd>>

\* end of the output: Parse returns nil and pstree returns buildProcTree(parser.stats)
EndOfInput ==
    /\ pc = "parse" /\ pos = Len(input)
    /\ \E order \in Orders(DOMAIN IndexLoop(stats, 1, <<>>).idx) :
          LET r == buildProcTree(stats, order)
          IN  /\ nodes' = r.nodes
              /\ root' = r.root
              /\ err' = r.err
              /\ pc' = IF r.err = "" THEN "built" ELSE "failed"
    /\ UNCHANGED <<input, pos, fn, header, stats, pred, stack, calls, found, pidArg, pidRet, columns, sshArg, cmd>>

\* end of the output under the revision of buildProcTree with ParentPid
EndOfInputParentPid ==
    /\ pc = "parse" /\ pos = Len(input)
    /\ \E order \in Orders(DOMAIN IndexLoopParentPid(stats, 1, <<>>).idx) :
          LET r == buildProcTreeParentPid(stats, order)
          IN  /\ nodes' = r.nodes
              /\ root' = r.root
              /\ err' = r.err
              /\ stats' = r.stats
              /\ pc' = IF r.err = "" THEN "built" ELSE "failed"
    /\ UNCHANGED <<input, pos, fn, header, pred, stack, calls, found, pidArg, pidRet,
                   columns, sshArg, cmd>>

\* root.Find(pred) up to the first call of iterNodes
FindEntry(P) ==
    /\ pc = "built"
    /\ pred' = P
    /\ calls' = <<root>>
    /\ IF root \in P
       THEN found' = root /\ stack' = <<>> /\ pc' = "done"
       ELSE found' = Nil /\ stack' = <<nodes[root].Children>> /\ pc' = "find"
    /\ UNCHANGED <<input, pos, fn, header, stats, err, nodes, root, pidArg, pidRet, columns, sshArg, cmd>>

\* root.Find(pred) for a predicate true of the nodes with a pid in P
Find == \E P \in SUBSET (0..MaxNodes) : FindEntry(P)

\* root.ForEach(fn): Find with a predicate that calls fn and returns false
ForEach == FindEntry({})

\* one call of iterNodes by the loop of Find
IterNodes ==
    /\ pc = "find" /\ Len(stack) > 0
    /\ Len(calls) < MaxCalls
    /\ LET r == iterNodes(nodes, stack, pred)
       IN  /\ stack' = r.stack
           /\ found' = r.node
           /\ calls' = calls \o r.applied
           /\ pc' = IF Len(r.stack) > 0 THEN "find" ELSE "done"
    /\ UNCHANGED <<input, pos, fn, header, stats, err, nodes, root, pred, pidArg, pidRet, columns, sshArg, cmd>>

\* a direct call getPid(stats, key)
GetPid ==
    /\ pc = "getPid"
    /\ pidRet' = getPid(pidArg.stats, pidArg.key)
    /\ pc' = "returned"
    /\ UNCHANGED <<input, pos, fn, header, stats, err, nodes, root, pred, stack,
                   calls, found, pidArg, columns, sshArg, cmd>>

\* a call makePsCommand(columns) of rstat.go
MakePsCommand ==
    /\ pc = "makePsCommand"
    /\ \E order \in Orders(ColumnLoop(columns, 1, {}, FALSE).m) :
          cmd' = makePsCommand(columns, order)
    /\ pc' = "returned"
    /\ UNCHANGED <<input, pos, fn, header, stats, err, nodes, root, pred, stack,
                   calls, found, pidArg, pidRet, columns, sshArg>>

\* a call makePsCommand(columns) of the revision with widths and substitutions
MakePsCommandSubst ==
    /\ pc = "makePsCommand"
    /\ \E order \in Orders(ColumnLoopSubst(columns, 1, {}, <<>>).m) :
          cmd' = makePsCommandSubst(columns, order)
    /\ pc' = "returned"
    /\ UNCHANGED <<input, pos, fn, header, stats, err, nodes, root, pred, stack,
                   calls, found, pidArg, pidRet, columns, sshArg>>

\* a call SSHCommand(host, user, passw, seconds)
SshCommand ==
    /\ pc = "SSHCommand"
    /\ cmd' = SSHCommand(sshArg.host, sshArg.user, sshArg.passw, sshArg.seconds)
    /\ pc' = "returned"
    /\ UNCHANGED <<input, pos, fn, header, stats, err, nodes, root, pred, stack,
                   calls, found, pidArg, pidRet, columns, sshArg>>

\* --------------------------------------------------------------- the inputs
Itoa(n) == <<Digits[n + 1]>>

H3 == PID \o <<SP>> \o PPID \o <<SP>> \o CMD

Row(pid, ppid, i) == Itoa(pid) \o <<SP>> \o Itoa(ppid) \o <<SP>> \o Itoa(i)

\* a 'ps' table of n rows, row i with the pid and the ppid f[i] gives
Table(f) == <<H3>> \o [i \in DOMAIN f |-> Row(f[i][1], f[i][2], i)]

\* every table of at most maxRecs rows with pids in 1..maxPid, and no output at all
TreeInputs(maxRecs, maxPid) ==
    {<<>>} \cup
    {Table(f) : f \in UNION {[1..n -> (1..maxPid) \X (0..maxPid)] : n \in 0..maxRecs}}

\* every table of at most maxNodes rows, row i with pid i and a smaller ppid
FindInputs(maxNodes) ==
    {Table([i \in DOMAIN g |-> <<i, g[i]>>]) :
        g \in UNION {{h \in [1..n -> 0..(maxNodes - 1)] : \A i \in 1..n : h[i] < i}
                     : n \in 1..maxNodes}}

\* tables in which PIDs repeat: every table of at most maxRecs rows with the pids
\* 1, 2 and any of them or 0 as ppid, and with the pids 1, 2, 3 and the ppid 0 or 1
DupInputs(maxRecs) ==
    {Table(f) : f \in UNION {[1..n -> ({1, 2} \X {0, 1, 2}) ] : n \in 0..maxRecs}}
    \cup {Table(f) : f \in UNION {[1..n -> ({1, 2, 3} \X {0, 1})] : n \in 0..maxRecs}}

\* all strings of at most n characters of the alphabet A
Strs(A, n) == UNION {[1..k -> A] : k \in 0..n}

PidChars == {"0", "1", "2", "8", "-", "+", "x"}

\* a record without the key, and every record holding a string of at most
\* maxLen of these characters under PID, asked for PID or for PPID
PidArgs(maxLen) ==
    {[stats |-> <<>>, key |-> PID]} \cup
    {[stats |-> [k \in {PID} |-> s], key |-> key] :
        s \in Strs(PidChars, maxLen), key \in {PID, PPID}}

\* tokens of an identifier column: two valid ones, a non-number, a negative one
PidToks == {<<"1">>, <<"2">>, <<"x">>, <<"-", "1">>}

PpidToks == {<<"0">>, <<"1">>, <<"x">>, <<"-", "1">>}

\* a table of the columns cols, row i made of f[i]'s tokens for those columns
IdTable(cols, f) ==
    LET hdr == IF cols = "all" THEN H3
               ELSE IF cols = "noPID" THEN PPID \o <<SP>> \o CMD
               ELSE PID \o <<SP>> \o CMD
        row(i) == IF cols = "all" THEN f[i][1] \o <<SP>> \o f[i][2] \o <<SP>> \o Itoa(i)
                  ELSE IF cols = "noPID" THEN f[i][2] \o <<SP>> \o Itoa(i)
                  ELSE f[i][1] \o <<SP>> \o Itoa(i)
    IN  <<hdr>> \o [i \in DOMAIN f |-> row(i)]

\* every table of at most maxRecs rows of these tokens, with and without the
\* PID and the PPID column
IdInputs(maxRecs) ==
    {IdTable(cols, f) : cols \in {"all", "noPID", "noPPID"},
                        f \in UNION {[1..n -> PidToks \X PpidToks] : n \in 0..maxRecs}}

\* lines of 'ps' output: headers of 3, 2 and 1 columns, a header that repeats a
\* column, rows of 1 to 4 tokens separated by blanks, tabs and a vertical tab,
\* and blank lines
ParseLines ==
    { H3,
      PID \o <<SP>> \o PPID,
      PID \o <<SP>> \o PID,
      PID,
      <<"1", SP, "0">>,
      <<SP, "1", SP, "0", SP, "a", HT>>,
      <<"2", SP, SP, "1", HT, "a", SP, SP, "b">>,
      <<"3", VT, "1">>,
      <<"x">>,
      <<>>,
      <<SP, VT, HT>> }

\* every output of at most maxLines of these lines
ParseInputs(maxLines) == UNION {[1..n -> ParseLines] : n \in 0..maxLines}

\* column requests: the identifier columns, the aliases of the command column
\* and two other columns, each bare, with a width and with a substitution, and
\* one with both
PsColumns ==
    {b \o x : b \in {Lpid, Lppid, Largs, Lcmd, Lcommand, <<"x">>, <<"y">>},
              x \in {<<>>, <<":", "9">>, <<"=", "C">>}}
    \cup {Lcmd \o <<":", "9", "=", "C">>}

\* every request of at most maxCols columns
ColumnLists(maxCols) == UNION {[1..n -> PsColumns] : n \in 0..maxCols}

\* arguments of SSHCommand: hosts, users and passwords that are empty, plain, or
\* made of the words and characters SSHCommand itself writes
SshHosts == {<<>>, <<"h">>, <<"a", "@", "b">>}

SshUsers == {<<>>, <<"u">>, Lssh}

SshPasswords == {<<>>, <<"w">>, <<" ">>, Lo, Lssh}

SshArgs(maxSeconds) ==
    [host : SshHosts, user : SshUsers, passw : SshPasswords, seconds : 0..maxSeconds]

\* no command builder has been called
NoCommand ==
    /\ columns = <<>> /\ cmd = <<>>
    /\ sshArg = [host |-> <<>>, user |-> <<>>, passw |-> <<>>, seconds |-> 0]

InitRest ==
    /\ pos = 0 /\ fn = "Enter" /\ header = <<>> /\ stats = <<>> /\ err = ""
    /\ nodes = <<>> /\ root = Nil
    /\ pred = {} /\ stack = <<>> /\ calls = <<>> /\ found = Nil

\* ----------------------------------------------------------- specifications
\* pstree on a well-formed table, then ForEach on the tree
InitTree ==
    /\ input \in TreeInputs(MaxRecs, MaxPid) /\ pc = "parse" /\ InitRest /\ NoCommand
    /\ pidArg = [stats |-> <<>>, key |-> PID] /\ pidRet = [val |-> 0, err |-> ""]

NextTree == Enter \/ read \/ EndOfInput \/ ForEach \/ IterNodes

SpecTree == InitTree /\ [][NextTree]_vars

\* pstree on a table of distinct pids, then Find on the tree
InitFind ==
    /\ input \in FindInputs(MaxNodes) /\ pc = "parse" /\ InitRest /\ NoCommand
    /\ pidArg = [stats |-> <<>>, key |-> PID] /\ pidRet = [val |-> 0, err |-> ""]

NextFind == Enter \/ read \/ EndOfInput \/ Find \/ IterNodes

SpecFind == InitFind /\ [][NextFind]_vars

\* getPid called on a record and a key
InitPid ==
    /\ input = <<>> /\ pc = "getPid" /\ InitRest /\ NoCommand
    /\ pidArg \in PidArgs(MaxStrLen) /\ pidRet = [val |-> 0, err |-> ""]

NextPid == GetPid

SpecPid == InitPid /\ [][NextPid]_vars

\* pstree on a table whose identifier fields may be invalid or missing
InitIds ==
    /\ input \in IdInputs(MaxIdRecs) /\ pc = "parse" /\ InitRest /\ NoCommand
    /\ pidArg = [stats |-> <<>>, key |-> PID] /\ pidRet = [val |-> 0, err |-> ""]

NextIds == Enter \/ read \/ EndOfInput

SpecIds == InitIds /\ [][NextIds]_vars

\* pstree on arbitrary lines
InitParse ==
    /\ input \in ParseInputs(MaxLines) /\ pc = "parse" /\ InitRest /\ NoCommand
    /\ pidArg = [stats |-> <<>>, key |-> PID] /\ pidRet = [val |-> 0, err |-> ""]

NextParse == SkipBlank \/ Enter \/ read \/ EndOfInput

SpecParse == InitParse /\ [][NextParse]_vars

\* makePsCommand of rstat.go on a list of column requests
InitPs ==
    /\ input = <<>> /\ pc = "makePsCommand" /\ InitRest
    /\ pidArg = [stats |-> <<>>, key |-> PID] /\ pidRet = [val |-> 0, err |-> ""]
    /\ columns \in ColumnLists(MaxCols) /\ cmd = <<>>
    /\ sshArg = [host |-> <<>>, user |-> <<>>, passw |-> <<>>, seconds |-> 0]

NextPs == MakePsCommand

SpecPs == InitPs /\ [][NextPs]_vars

\* makePsCommand of the revision with widths and substitutions
NextPsSubst == MakePsCommandSubst

SpecPsSubst == InitPs /\ [][NextPsSubst]_vars

\* SSHCommand on every combination of its arguments
InitSsh ==
    /\ input = <<>> /\ pc = "SSHCommand" /\ InitRest
    /\ pidArg = [stats |-> <<>>, key |-> PID] /\ pidRet = [val |-> 0, err |-> ""]
    /\ columns = <<>> /\ cmd = <<>>
    /\ sshArg \in SshArgs(MaxSeconds)

NextSsh == SshCommand

SpecSsh == InitSsh /\ [][NextSsh]_vars

\* pstree on a table in which PIDs repeat, the tree built by either revision of
\* buildProcTree
InitBuild ==
    /\ input \in DupInputs(MaxRecs) /\ pc = "parse" /\ InitRest /\ NoCommand
    /\ pidArg = [stats |-> <<>>, key |-> PID] /\ pidRet = [val |-> 0, err |-> ""]

NextBuild == Enter \/ read \/ EndOfInput \/ EndOfInputParentPid

SpecBuild == InitBuild /\ [][NextBuild]_vars

\* ------------------------------------------------------------------- claims
\* What a string denotes, stated without the scanner: a literal is an optional
\* sign and one or more digits, and its value the sum of its weighted digits.
Unsigned(s) == IF Len(s) > 0 /\ s[1] \in {"+", "-"} THEN Tail(s) ELSE s

IsLiteral(s) ==
    /\ Len(Unsigned(s)) > 0
    /\ \A i \in 1..Len(Unsigned(s)) : Unsigned(s)[i] \in {Digits[d] : d \in 1..10}

RECURSIVE Weighted(_, _)
Weighted(u, i) ==
    IF i > Len(u) THEN 0 ELSE DigitVal(u[i]) * Pow(10, Len(u) - i) + Weighted(u, i + 1)

Denoted(s) == IF s[1] = "-" THEN 0 - Weighted(Unsigned(s), 1) ELSE Weighted(Unsigned(s), 1)

InRange(v) == -Pow(2, IntBits - 1) <= v /\ v <= Pow(2, IntBits - 1) - 1

\* C7: getPid fails with the missing-field error when the key is absent or its
\* value empty, with the number-format error when the value is no integer
\* literal or out of the int range, with the negative-value error when it
\* denotes a negative integer, and otherwise returns the integer it denotes.
C7_GetPidContract ==
    pc = "returned" =>
        LET m == pidArg.stats
            k == pidArg.key
        IN  IF k \notin DOMAIN m \/ m[k] = <<>> THEN pidRet.err = "missing"
            ELSE IF ~IsLiteral(m[k]) \/ ~InRange(Denoted(m[k])) THEN pidRet.err = "format"
            ELSE IF Denoted(m[k]) < 0 THEN pidRet.err = "negative"
            ELSE pidRet.err = "" /\ pidRet.val = Denoted(m[k])

\* C7 witness: a call that returned a number of several digits
C7_Witness ==
    /\ pc = "returned" /\ pidRet.err = "" /\ pidRet.val >= 10
    /\ pidArg.key \in DOMAIN pidArg.stats

\* the identifier field k of record m is present and denotes a non-negative int
ValidId(m, k) ==
    /\ k \in DOMAIN m /\ m[k] # <<>>
    /\ IsLiteral(m[k]) /\ InRange(Denoted(m[k])) /\ Denoted(m[k]) >= 0

AllIdsValid == \A i \in 1..Len(stats) : ValidId(stats[i], PID) /\ ValidId(stats[i], PPID)

RecPid(i) == Denoted(stats[i][PID])

RecPpid(i) == Denoted(stats[i][PPID])

\* the parser has delivered its records and buildProcTree has run on them
BuildDone == pc \notin {"parse", "getPid", "returned"} /\ err \notin {"header", "rowshape"}

\* the children of node a, and all nodes below it
Kids(heap, a) == {heap[a].Children[i] : i \in 1..Len(heap[a].Children)}

RECURSIVE Closure(_, _)
Closure(heap, S) ==
    LET T == S \cup UNION {Kids(heap, a) : a \in S}
    IN  IF T = S THEN S ELSE Closure(heap, T)

Descendants(heap, a) == Closure(heap, Kids(heap, a))

Reachable == {root} \cup Descendants(nodes, root)

\* the records (by position) whose PPID chain leads to a record with pid 1
RECURSIVE ChainClosure(_)
ChainClosure(S) ==
    LET T == S \cup {i \in 1..Len(stats) : \E j \in S : RecPpid(i) = RecPid(j)}
    IN  IF T = S THEN S ELSE ChainClosure(T)

LeadsToOne == ChainClosure({i \in 1..Len(stats) : RecPid(i) = 1})

NoRepeat(q) == \A a, b \in 1..Len(q) : q[a] = q[b] => a = b

\* C1: when every identifier is valid and a record has pid 1, buildProcTree
\* returns the pid-1 node without error and a full ForEach visits exactly the
\* records whose PPID chain leads to pid 1, each once, and no other record.
C1_VisitsChainToOne ==
    (BuildDone /\ AllIdsValid /\ \E i \in 1..Len(stats) : RecPid(i) = 1) =>
        /\ pc # "failed" /\ err = "" /\ root = 1 /\ nodes[root].Pid = 1
        /\ NoRepeat(calls)
        /\ {nodes[calls[a]].Stats : a \in 1..Len(calls)} \subseteq {stats[i] : i \in LeadsToOne}
        /\ pc = "done" =>
              {nodes[calls[a]].Stats : a \in 1..Len(calls)} = {stats[i] : i \in LeadsToOne}

\* C2: no node of a tree returned by buildProcTree is reachable from itself by
\* following Children links.
C2_TreeAcyclic ==
    (BuildDone /\ root # Nil) => \A n \in Reachable : n \notin Descendants(nodes, n)

\* C3: ForEach on a returned tree applies the visitor to nodes reachable from the
\* root only, to none of them twice, and has applied it to all of them, without a
\* match, when it returns.
C3_ForEachOnce ==
    (pc \in {"find", "done"} /\ pred = {}) =>
        /\ NoRepeat(calls)
        /\ {calls[a] : a \in 1..Len(calls)} \subseteq Reachable
        /\ pc = "done" => {calls[a] : a \in 1..Len(calls)} = Reachable /\ found = Nil

\* C5: buildProcTree fails with the root-not-found error and returns no tree
\* whenever every identifier is valid and no record has pid 1, the empty record
\* list of a header-only or empty output included.
C5_RootNotFound ==
    (BuildDone /\ AllIdsValid /\ \A i \in 1..Len(stats) : RecPid(i) # 1) =>
        pc = "failed" /\ err = "noroot" /\ root = Nil

\* C5 witness: the build has failed for a list of valid records without pid 1
C5_Witness ==
    /\ BuildDone /\ AllIdsValid /\ Len(stats) >= 2
    /\ \A i \in 1..Len(stats) : RecPid(i) # 1
    /\ err = "noroot"

\* C6: buildProcTree returns an identifier error and no tree whenever any record
\* has a PID or PPID that is missing, empty, not a number or negative.
C6_IdErrorNeverSuppressed ==
    (BuildDone /\ \E i \in 1..Len(stats) : ~ValidId(stats[i], PID) \/ ~ValidId(stats[i], PPID)) =>
        pc = "failed" /\ err \in {"missing", "format", "negative"} /\ root = Nil

\* the nodes below and including n in depth-first pre-order: n, then the subtree
\* of each child in the order of the Children list
RECURSIVE PreOrder(_, _)
RECURSIVE PreOrderOfList(_, _, _)
PreOrderOfList(heap, list, i) ==
    IF i > Len(list) THEN <<>>
    ELSE PreOrder(heap, list[i]) \o PreOrderOfList(heap, list, i + 1)

PreOrder(heap, n) == <<n>> \o PreOrderOfList(heap, heap[n].Children, 1)

\* C4: Find applies the predicate in depth-first pre-order, returns the first
\* node in that order for which it is true without applying it to a later node,
\* and returns nil when it is false for every node; until it returns, the next
\* call of iterNodes can be made.
C4_FindPreOrder ==
    pc \in {"find", "done"} =>
        LET po   == PreOrder(nodes, root)
            hits == {k \in 1..Len(po) : po[k] \in pred}
            k0   == CHOOSE k \in hits : \A j \in hits : k <= j
        IN  /\ Len(calls) <= Len(po)
            /\ calls = SubSeq(po, 1, Len(calls))
            /\ pc = "find" =>
                  /\ found = Nil /\ \A a \in 1..Len(calls) : calls[a] \notin pred
                  /\ ENABLED IterNodes
            /\ pc = "done" =>
                  IF hits = {} THEN calls = po /\ found = Nil
                  ELSE calls = SubSeq(po, 1, k0) /\ found = po[k0]

\* C4 witness: Find returned node 3 of the tree 1 -> [2 -> [3], 4] and never
\* applied the predicate to node 4
C4_Witness ==
    /\ pc = "done" /\ found = 3 /\ calls = <<1, 2, 3>>
    /\ nodes[1].Children = <<2, 4>> /\ nodes[2].Children = <<3>>

\* Lines and tokens, stated by position: a token starts at a character that is
\* no separator and follows one (or starts the line), and ends likewise.
NonBlank(l) == \E i \in 1..Len(l) : ~IsSpace(l[i])

Starts(l, Sep(_)) == {i \in 1..Len(l) : ~Sep(l[i]) /\ (i = 1 \/ Sep(l[i - 1]))}

Ends(l, Sep(_)) == {i \in 1..Len(l) : ~Sep(l[i]) /\ (i = Len(l) \/ Sep(l[i + 1]))}

Nth(S, n) == CHOOSE x \in S : Cardinality({y \in S : y < x}) = n - 1

\* the n-th token of a data line, the number of its tokens, and the line from the
\* n-th token on; the separators of a data line are those of wsRe
Token(l, n) == SubSeq(l, Nth(Starts(l, ReSpace), n), Nth(Ends(l, ReSpace), n))

TokenCount(l) == Cardinality(Starts(l, ReSpace))

Rest(l, n) == SubSeq(l, Nth(Starts(l, ReSpace), n), Len(l))

\* the n-th column name of a header line and the number of its names; the
\* separators of a header are those of strings.Fields
Column(l, n) == SubSeq(l, Nth(Starts(l, IsSpace), n), Nth(Ends(l, IsSpace), n))

ColumnCount(l) == Cardinality(Starts(l, IsSpace))

ColumnNames(l) == {Column(l, n) : n \in 1..ColumnCount(l)}

\* the value a record holds for a column, empty when it holds none
ValueOf(r, col) == IF col \in DOMAIN r THEN r[col] ELSE <<>>

\* the non-blank lines delivered so far, and the last of them
Delivered == SelectSeq(SubSeq(input, 1, pos), NonBlank)

LastLine == TrimSpace(Delivered[Len(Delivered)])

\* the header was accepted and at least one data line delivered
RowDelivered == Len(Delivered) >= 2 /\ ColumnCount(Delivered[1]) >= 2

\* every non-blank line after the first splits into as many fields as the first
\* non-blank line has column names, and they are at least 2
WellFormed ==
    LET nb == SelectSeq(input, NonBlank)
    IN  /\ Len(nb) >= 1 /\ ColumnCount(nb[1]) >= 2
        /\ \A k \in 2..Len(nb) : TokenCount(TrimSpace(nb[k])) >= ColumnCount(nb[1])

\* the parser has one record per data line delivered, in the order of the lines
OneRecordPerLine ==
    /\ err \notin {"header", "rowshape"}
    /\ Len(Delivered) >= 1 => Len(stats) = Len(Delivered) - 1
    /\ \A k \in 1..Len(stats) :
          LET n == ColumnCount(Delivered[1])
          IN  ValueOf(stats[k], Column(Delivered[1], n)) = Rest(TrimSpace(Delivered[k + 1]), n)

\* C8 as stated: on well-formed input the parser yields one record per non-blank
\* data line, in input order, blank lines changing nothing, and every record has
\* as many fields as the header has columns.
C8_Claim ==
    WellFormed =>
        /\ OneRecordPerLine
        /\ \A k \in 1..Len(stats) : Cardinality(DOMAIN stats[k]) = ColumnCount(Delivered[1])

\* C8 amended: ... and every record has as many fields as the header has
\* distinct column names.
C8_RecordPerLine ==
    WellFormed =>
        /\ OneRecordPerLine
        /\ \A k \in 1..Len(stats) : DOMAIN stats[k] = ColumnNames(Delivered[1])

\* C8 witness: all lines of an output with a blank line in it were read, and
\* gave two records
C8_Witness ==
    /\ WellFormed /\ pc = "parse" /\ pos = Len(input) /\ Len(stats) = 2
    /\ \E i \in 1..Len(input) : ~NonBlank(input[i])

\* C9 as stated: a data line whose number of whitespace-separated fields differs
\* from the header length, by being fewer or more, fails with the row-shape error.
C9_Claim ==
    (RowDelivered /\ TokenCount(LastLine) # ColumnCount(Delivered[1])) =>
        err = "rowshape" /\ pc = "failed" /\ root = Nil

\* C9 amended: a data line fails with the row-shape error exactly when it has
\* fewer fields than the header; the failure is terminal: nothing is parsed after
\* it and the call returns no tree.
C9_RowShape ==
    RowDelivered =>
        /\ TokenCount(LastLine) < ColumnCount(Delivered[1]) <=> err = "rowshape"
        /\ err = "rowshape" =>
              /\ pc = "failed" /\ fn = "nil" /\ root = Nil
              /\ Len(stats) = Len(Delivered) - 2
              /\ ~ENABLED (SkipBlank \/ Enter \/ read \/ EndOfInput)

\* C9 witness: the parser failed on a short line with a non-blank line after it
C9_Witness ==
    /\ RowDelivered /\ err = "rowshape"
    /\ pos < Len(input) /\ NonBlank(input[pos + 1])

\* the last record holds the first n-1 tokens of the last line under the first
\* n-1 column names and the rest of the line under the last
SurplusFolded ==
    LET n == ColumnCount(Delivered[1])
        r == stats[Len(stats)]
    IN  /\ err # "rowshape"
        /\ Len(stats) = Len(Delivered) - 1
        /\ Cardinality(DOMAIN r) = n
        /\ \A j \in 1..(n - 1) : ValueOf(r, Column(Delivered[1], j)) = Token(LastLine, j)
        /\ ValueOf(r, Column(Delivered[1], n)) = Rest(LastLine, n)

\* C10 as stated: a data line with more tokens than the header has columns is
\* accepted, its first n-1 tokens the values of the first n-1 columns and the
\* rest of the line, whitespace included, the value of the last.
C10_Claim ==
    (RowDelivered /\ TokenCount(LastLine) > ColumnCount(Delivered[1])) => SurplusFolded

\* C10 amended: the same, for a header whose column names are distinct.
C10_SurplusInLastColumn ==
    (/\ RowDelivered /\ TokenCount(LastLine) > ColumnCount(Delivered[1])
     /\ Cardinality(ColumnNames(Delivered[1])) = ColumnCount(Delivered[1])) => SurplusFolded

\* C10 witness: a record whose last column holds two tokens and the blanks
\* between them
C10_Witness ==
    /\ RowDelivered /\ Len(stats) >= 1 /\ ColumnCount(Delivered[1]) = 3
    /\ ValueOf(stats[Len(stats)], CMD) = <<"a", SP, SP, "b">>
    /\ ValueOf(stats[Len(stats)], PID) = <<"2">>

\* C11: when the first non-blank line has fewer than 2 whitespace-separated
\* fields the parser fails on it with the header error, and only then: the row
\* reader is never installed, there is no record and no tree, and no later line
\* is parsed.
C11_HeaderError ==
    Len(Delivered) >= 1 =>
        /\ ColumnCount(Delivered[1]) < 2 <=> err = "header"
        /\ ColumnCount(Delivered[1]) < 2 =>
              /\ pc = "failed" /\ fn = "nil"
              /\ Len(Delivered) = 1 /\ stats = <<>>
              /\ root = Nil /\ nodes = <<>>
              /\ ~ENABLED (SkipBlank \/ Enter \/ read \/ EndOfInput)

\* C11 witness: the parser failed on a one-column header that followed a blank
\* line and is followed by a data line
C11_Witness ==
    /\ err = "header" /\ pos >= 2 /\ pos < Len(input)
    /\ TokenCount(TrimSpace(input[pos + 1])) >= 2

\* C12: after a successful build the stats of every node of the tree are the
\* node's record without the identifier columns: the keys PID and PPID are absent
\* and every other column has the value the parser gave it.
C12_StatsWithoutIds ==
    (BuildDone /\ root # Nil) =>
        \A n \in Reachable :
            /\ PID \notin DOMAIN nodes[n].Stats
            /\ PPID \notin DOMAIN nodes[n].Stats
            /\ \E i \in 1..Len(stats) :
                  /\ getPid(stats[i], PID).val = nodes[n].Pid
                  /\ DOMAIN nodes[n].Stats = DOMAIN stats[i] \ {PID, PPID}
                  /\ \A k \in DOMAIN nodes[n].Stats : nodes[n].Stats[k] = stats[i][k]

\* A column without its width and substitution: what precedes the first ':' or
\* '='. The pieces of a string between its commas.
BaseName(c) ==
    LET stops == {i \in 1..Len(c) : c[i] \in {":", "="}}
    IN  IF stops = {} THEN c ELSE SubSeq(c, 1, Nth(stops, 1) - 1)

CommaPieces(str) ==
    LET commas == {i \in 1..Len(str) : str[i] = ","}
        n      == Cardinality(commas)
        beg(k) == IF k = 1 THEN 1 ELSE Nth(commas, k - 1) + 1
        end(k) == IF k = n + 1 THEN Len(str) ELSE Nth(commas, k) - 1
    IN  [k \in 1..(n + 1) |-> SubSeq(str, beg(k), end(k))]

\* the columns a 'ps' invocation asks for, in order: the comma-separated pieces
\* of the values of its -o options
RECURSIVE InvocationColumns(_, _)
InvocationColumns(vec, k) ==
    IF k > Len(vec) THEN <<>>
    ELSE IF vec[k] \in {Lps, Lewwo, Lo, LewwF} THEN InvocationColumns(vec, k + 1)
    ELSE CommaPieces(vec[k]) \o InvocationColumns(vec, k + 1)

CmdAliases == {Largs, Lcmd, Lcommand}

\* C13: for a non-empty request the invocation asks for pid and ppid first, in
\* that order, and for neither again; when the command column was requested under
\* an alias (args, cmd, command), with or without a width or a substitution, its
\* form named cmd is the last column and no other column is the command column;
\* the other requested columns, and only they, lie in between.
C13_IdsFirstCmdLast ==
    (pc = "returned" /\ Len(columns) > 0) =>
        LET cols    == InvocationColumns(cmd, 1)
            n       == Len(cols)
            wantCmd == \E i \in 1..Len(columns) : BaseName(columns[i]) \in CmdAliases
            lastMid == IF wantCmd THEN n - 1 ELSE n
        IN  /\ n >= 2 /\ cols[1] = Lpid /\ cols[2] = Lppid
            /\ \A k \in 3..n : BaseName(cols[k]) \notin {Lpid, Lppid}
            /\ wantCmd => n >= 3 /\ BaseName(cols[n]) = Lcmd
            /\ \A k \in 3..lastMid : BaseName(cols[k]) \notin CmdAliases
            /\ {BaseName(cols[k]) : k \in 3..lastMid}
                  = {BaseName(columns[i]) : i \in 1..Len(columns)}
                        \ ({Lpid, Lppid} \cup CmdAliases)

\* the request names its columns bare, without width or substitution
BareRequest == \A i \in 1..Len(columns) : BaseName(columns[i]) = columns[i]

\* the same for requests that name their columns bare, as rstat.go expects them
C13_ForBareRequests == BareRequest => C13_IdsFirstCmdLast

\* s begins with the string p
HasPrefix(s, p) == Len(s) >= Len(p) /\ SubSeq(s, 1, Len(p)) = p

\* the positions of a vector where the pair -o ConnectTimeout=... stands
TimeoutPairs(vec) ==
    {k \in 1..(Len(vec) - 1) : vec[k] = Lo /\ HasPrefix(vec[k + 1], LConnectTimeout)}

\* the text of the timeout option after its '='
TimeoutText(vec, k) == SubSeq(vec[k + 1], Len(LConnectTimeout) + 1, Len(vec[k + 1]))

\* C14: the vector SSHCommand returns starts with sshpass -p <passw> ssh exactly
\* when passw is non-empty and with ssh otherwise, has the pair -o
\* ConnectTimeout=<seconds>, once, right after ssh and with seconds in decimal,
\* exactly when seconds is not 0, and ends with <user>@<host>; it has nothing else.
C14_SshVector ==
    pc = "returned" =>
        LET a    == sshArg
            ssh  == IF Len(a.passw) > 0 THEN 4 ELSE 1
            last == Len(cmd)
        IN  /\ Len(a.passw) > 0 <=>
                  /\ last >= 4 /\ cmd[1] = Lsshpass /\ cmd[2] = Lp
                  /\ cmd[3] = a.passw /\ cmd[4] = Lssh
            /\ Len(a.passw) = 0 <=> cmd[1] = Lssh
            /\ a.seconds # 0 <=> TimeoutPairs(cmd) # {}
            /\ a.seconds # 0 =>
                  /\ TimeoutPairs(cmd) = {ssh + 1}
                  /\ LET t == TimeoutText(cmd, ssh + 1)
                     IN  /\ Len(t) > 0 /\ \A i \in 1..Len(t) : IsDigit(t[i])
                         /\ t[1] # "0"
                         /\ Weighted(t, 1) = a.seconds
            /\ last = ssh + (IF a.seconds # 0 THEN 2 ELSE 0) + 1
            /\ \E i \in 1..Len(cmd[last]) :
                  /\ cmd[last][i] = "@"
                  /\ SubSeq(cmd[last], 1, i - 1) = a.user
                  /\ SubSeq(cmd[last], i + 1, Len(cmd[last])) = a.host

\* C14 witness: a vector of seven words with a password and a timeout of two digits
C14_Witness ==
    /\ pc = "returned" /\ Len(cmd) = 7 /\ sshArg.seconds >= 10
    /\ cmd[1] = Lsshpass /\ cmd[7] = <<"u", "@", "h">>

\* The records of the input, read off its lines: record i is data line i, its
\* value for a column the token at the column's place (the rest of the line for
\* the last column).
RecCount == Len(Delivered) - 1

InField(i, col) ==
    LET l == TrimSpace(Delivered[i + 1])
        w == ColumnCount(Delivered[1])
        n == CHOOSE n \in 1..w : Column(Delivered[1], n) = col
    IN  IF n = w THEN Rest(l, n) ELSE Token(l, n)

InPid(i) == Denoted(InField(i, PID))

InPpid(i) == Denoted(InField(i, PPID))

InPids == {InPid(i) : i \in 1..RecCount}

\* how often the node p stands in the Children lists of all nodes together
Occurrences(heap, p) ==
    Cardinality({qk \in UNION {{<<q, k>> : k \in 1..Len(heap[q].Children)} : q \in DOMAIN heap} :
                    heap[qk[1]].Children[qk[2]] = p})

\* the index has exactly one node per PID of the input, with the stats of the last
\* record of that PID, standing once in the Children of the node its last record
\* names as parent and in no other list (in none when no record has that PID)
OneNodePerPid ==
    LET names == ColumnNames(Delivered[1])
        rec   == [i \in 1..RecCount |-> [col \in names |-> InField(i, col)]]
        pid   == [i \in 1..RecCount |-> Denoted(rec[i][PID])]
        ppid  == [i \in 1..RecCount |-> Denoted(rec[i][PPID])]
        pids  == {pid[i] : i \in 1..RecCount}
        last  == [p \in pids |->
                    CHOOSE i \in 1..RecCount : pid[i] = p /\ \A j \in (i + 1)..RecCount : pid[j] # p]
    IN  /\ err = "" /\ root = 1
        /\ DOMAIN nodes = pids
        /\ \A p \in pids :
              /\ nodes[p].Pid = p
              /\ DOMAIN nodes[p].Stats \subseteq names
              /\ names \ {PID, PPID} \subseteq DOMAIN nodes[p].Stats
              /\ \A col \in DOMAIN nodes[p].Stats : nodes[p].Stats[col] = rec[last[p]][col]
              /\ Occurrences(nodes, p) = IF ppid[last[p]] \in pids THEN 1 ELSE 0
              /\ ppid[last[p]] \in pids => p \in Kids(nodes, ppid[last[p]])

\* two records of the input have the same PID
SharedPid == \E i, j \in 1..RecCount : i # j /\ InPid(i) = InPid(j)

\* C15 as stated: when records share a PID the build does not fail, and its
\* result has exactly one node for that PID, with the stats and the parent link of
\* the last such record, in no more than one Children list and there once; the
\* earlier records of the PID give the tree nothing, and nodes and children are
\* the same whatever the order in which the index is ranged over.
C15_Claim ==
    (BuildDone /\ Len(Delivered) >= 1 /\ SharedPid) => OneNodePerPid

\* C15 amended: when records, all with valid identifiers, share a PID, the build
\* fails exactly when no record has PID 1, as it does without shared PIDs, and
\* with the root-not-found error; the index of a successful build has exactly one
\* node per PID, as above. The nodes and the children of each node are thus fixed
\* by the record list, whatever the order in which the index is ranged over; only
\* the order within a Children list varies.
C15_LastRecordWins ==
    (BuildDone /\ Len(Delivered) >= 1) =>
        /\ err = "" <=> 1 \in InPids
        /\ err # "" => err = "noroot" /\ root = Nil /\ pc = "failed"
        /\ err = "" => OneNodePerPid

\* C15 witness: a tree built from three records, two of them with PID 2 and
\* different parents, in which node 2 has the stats of the last and is the child
\* of node 1 as the last says
C15_Witness ==
    /\ BuildDone /\ err = "" /\ RecCount = 3
    /\ InPid(1) = 2 /\ InPpid(1) = 2 /\ InPid(2) = 1 /\ InPid(3) = 2 /\ InPpid(3) = 1
    /\ nodes[1].Children = <<2>> /\ nodes[2].Children = <<>>
    /\ ValueOf(nodes[2].Stats, CMD) = <<"3">>

====
